---- MODULE Spec2Model ----
(***************************************************************************)
(* A model of the PDFProcessor class of pdf-splitter-mcp: the registry of  *)
(* loaded documents (loadPDF / unloadPDF / saveCache), identifier          *)
(* assignment (generateUniqueId), markdown synthesis (convertToMarkdown),  *)
(* pagination (paginateContent) and search (searchPDF).                    *)
(*                                                                         *)
(* Texts are sequences of one-character strings, positions are 0-based as  *)
(* in the source wherever the source computes with offsets.                *)
(***************************************************************************)
EXTENDS Integers, Sequences, FiniteSets, TLC

VARIABLES
    pgContent,      \* paginateContent: the content argument
    pgBudget,       \* paginateContent: the charsPerPage argument
    pgPages,        \* paginateContent: the returned pages
    pgDone,         \* paginateContent has returned
    mdPages,        \* convertToMarkdown: the page texts
    mdOutline,      \* convertToMarkdown: the outline (<<>>: none)
    mdSections,     \* convertToMarkdown: sections, as flattenOutline returns it
    mdBody,         \* convertToMarkdown: the returned markdown
    mdDone,         \* convertToMarkdown has returned
    srBody,         \* searchPDF: the markdown of the document searched
    srQuery,        \* searchPDF: query
    srCase,         \* searchPDF: caseSensitive
    srRegex,        \* searchPDF: regex
    srMax,          \* searchPDF: maxResults, <<>> when omitted, else <<k>>
    srContext,      \* searchPDF: contextChars
    srResult,       \* searchPDF: the outcome of the call
    srDone,         \* searchPDF has been called
    loadedPDFs,     \* PDFProcessor.loadedPDFs
    cacheFile,      \* the file cache.json: whether it exists, and its pairs
    dirExists,      \* the directory of cache.json exists
    tasks,          \* the calls of loadPDF / unloadPDF in flight, by slot
    calls,          \* how many calls of loadPDF / unloadPDF were made
    lastEv,         \* the last change of loadedPDFs (set or delete)
    observed,       \* what the last reading call got from loadedPDFs, or
                    \* the error of a loadPDF that threw, until the next step
    restore,        \* restoreCache at the start of the process: where it is
    fetches,        \* the downloads of loadPDF in flight, with their timers
    seBody,         \* extractSection: the markdown of the document
    seTitle,        \* extractSection: sectionTitle
    sePage,         \* extractSection: page
    seBudget,       \* extractSection: charsPerPage
    seResult,       \* extractSection: the outcome of the call
    seDone          \* extractSection has been called

pgVars == <<pgContent, pgBudget, pgPages, pgDone>>
mdVars == <<mdPages, mdOutline, mdSections, mdBody, mdDone>>

srVars == <<srBody, srQuery, srCase, srRegex, srMax, srContext, srResult, srDone>>

regVars ==
    <<loadedPDFs, cacheFile, dirExists, tasks, calls, lastEv, observed, restore>>

ftVars == <<fetches>>

seVars == <<seBody, seTitle, sePage, seBudget, seResult, seDone>>

vars == <<pgVars, mdVars, srVars, regVars, ftVars, seVars>>

(***************************************************************************)
(* Text helpers (JavaScript string semantics).                             *)
(***************************************************************************)
NL == "\n"
ParaSep == <<NL, NL>>

\* \s of a JavaScript regular expression, on the alphabet of the model
IsSpace(c) == c \in {" ", NL}

\* Array.prototype.join
RECURSIVE Join(_, _)
Join(parts, sep) ==
    IF Len(parts) = 0 THEN <<>>
    ELSE IF Len(parts) = 1 THEN parts[1]
    ELSE parts[1] \o sep \o Join(Tail(parts), sep)

\* text.startsWith(pat, at), at 0-based
StartsWithAt(text, pat, at) ==
    /\ at + Len(pat) <= Len(text)
    /\ \A k \in 1..Len(pat) : text[at + k] = pat[k]

\* String.prototype.indexOf(pat, from): 0-based offset of the first occurrence
\* at or after from, -1 when there is none; the empty pattern occurs at from
\* (clamped to the length)
RECURSIVE IndexOf(_, _, _)
IndexOf(text, pat, from) ==
    IF Len(pat) = 0 THEN (IF from <= Len(text) THEN from ELSE Len(text))
    ELSE IF from + Len(pat) > Len(text) THEN -1
    ELSE IF StartsWithAt(text, pat, from) THEN from
    ELSE IndexOf(text, pat, from + 1)

Max2(a, b) == IF a >= b THEN a ELSE b
Min2(a, b) == IF a <= b THEN a ELSE b

\* String.prototype.substring(a, b), 0-based, b exclusive: both ends are
\* clamped to 0..length and swapped when a > b
Substring(text, a, b) ==
    LET a1 == Min2(Max2(a, 0), Len(text))
        b1 == Min2(Max2(b, 0), Len(text))
    IN SubSeq(text, Min2(a1, b1) + 1, Max2(a1, b1))

\* String.prototype.split(sep) for a non-empty separator
RECURSIVE Split(_, _)
Split(text, sep) ==
    LET at == IndexOf(text, sep, 0) IN
    IF at = -1 THEN <<text>>
    ELSE <<Substring(text, 0, at)>>
         \o Split(Substring(text, at + Len(sep), Len(text)), sep)

RECURSIVE TrimStart(_)
TrimStart(text) ==
    IF Len(text) > 0 /\ IsSpace(text[1]) THEN TrimStart(Tail(text)) ELSE text

RECURSIVE TrimEnd(_)
TrimEnd(text) ==
    IF Len(text) > 0 /\ IsSpace(text[Len(text)])
    THEN TrimEnd(SubSeq(text, 1, Len(text) - 1)) ELSE text

\* String.prototype.trim
Trim(text) == TrimEnd(TrimStart(text))

\* number of leading '#' characters
RECURSIVE HashRun(_)
HashRun(text) ==
    IF Len(text) > 0 /\ text[1] = "#" THEN 1 + HashRun(Tail(text)) ELSE 0

(***************************************************************************)
(* paginateContent                                                         *)
(***************************************************************************)
\* paragraph.match(/^#+\s/)
IsHeadingParagraph(paragraph) ==
    LET h == HashRun(paragraph) IN
    h >= 1 /\ Len(paragraph) > h /\ IsSpace(paragraph[h + 1])

\* Fits without the two characters of the separator
FitsNoSeparator(currentPage, paragraph, charsPerPage) ==
    Len(currentPage) + Len(paragraph) <= charsPerPage

\* currentPage.length + paragraph.length + 2 <= charsPerPage
Fits(currentPage, paragraph, charsPerPage) ==
    Len(currentPage) + Len(paragraph) + 2 <= charsPerPage

\* the body of the for loop, from paragraph i (1-based) on, and the final push
RECURSIVE PaginateLoop(_, _, _, _, _)
PaginateLoop(paragraphs, charsPerPage, i, pages, currentPage) ==
    IF i > Len(paragraphs)
    THEN IF Len(currentPage) > 0 THEN Append(pages, currentPage) ELSE pages
    ELSE
      LET paragraph == paragraphs[i]
          isHeading == IsHeadingParagraph(paragraph)
          \* nextParagraph is truthy: defined and not the empty string
          hasNext   == i + 1 <= Len(paragraphs) /\ Len(paragraphs[i + 1]) > 0
          startNew  == Len(currentPage) = 0
          append    == ~startNew /\ Fits(currentPage, paragraph, charsPerPage)
          pages1    == IF startNew \/ append THEN pages
                       ELSE Append(pages, currentPage)
          page1     == IF append THEN currentPage \o ParaSep \o paragraph
                       ELSE paragraph
          pull      == /\ isHeading
                       /\ hasNext
                       /\ Fits(page1, paragraphs[i + 1], charsPerPage)
      IN IF pull
         THEN PaginateLoop(paragraphs, charsPerPage, i + 2, pages1,
                           page1 \o ParaSep \o paragraphs[i + 1])
         ELSE PaginateLoop(paragraphs, charsPerPage, i + 1, pages1, page1)

paginateContent(content, charsPerPage) ==
    IF Len(content) <= charsPerPage THEN <<content>>
    ELSE PaginateLoop(Split(content, ParaSep), charsPerPage, 1, <<>>, <<>>)

(***************************************************************************)
(* Inputs of the pagination specification.                                 *)
(***************************************************************************)
MaxParas == 4
MaxBudget == 8

SeqsUpTo(S, n) == UNION {[1..k -> S] : k \in 0..n}

ParaSet ==
    { <<>>, <<"a">>, <<"b", "b", "b">>, <<"#", " ", "H">>, <<"c", NL>> }

PgIdle ==
    /\ pgContent = <<>>
    /\ pgBudget = 0
    /\ pgPages = <<>>
    /\ pgDone = FALSE

PgStart ==
    /\ pgContent \in {Join(ps, ParaSep) : ps \in SeqsUpTo(ParaSet, MaxParas)}
    /\ pgBudget \in 0..MaxBudget
    /\ pgPages = <<>>
    /\ pgDone = FALSE

Paginate ==
    /\ ~pgDone
    /\ pgPages' = paginateContent(pgContent, pgBudget)
    /\ pgDone' = TRUE
    /\ UNCHANGED <<pgContent, pgBudget>>
    /\ UNCHANGED <<mdVars, srVars, regVars, ftVars, seVars>>


(***************************************************************************)
(* convertToMarkdown                                                       *)
(*                                                                         *)
(* An OutlineItem is a record [title, page, level, children]; page = 0     *)
(* stands for an item whose destination did not resolve (page undefined).  *)
(***************************************************************************)
\* '#'.repeat(n)
RECURSIVE Hashes(_)
Hashes(n) == IF n <= 0 THEN <<>> ELSE <<"#">> \o Hashes(n - 1)

\* pages[p - 1]?.trim() is truthy
HasText(pages, p) == p >= 1 /\ p <= Len(pages) /\ Len(Trim(pages[p])) > 0

\* every section runs to the last page
EndsAtLastPage(items, i, pageCount) == pageCount

\* endPage of items[i]: nextItem?.page ? nextItem.page - 1 : pages.length
SectionEndPage(items, i, pageCount) ==
    IF i + 1 <= Len(items) /\ items[i + 1].page # 0
    THEN items[i + 1].page - 1
    ELSE pageCount

\* flattenOutline, from item i (1-based) of items on
RECURSIVE FlattenFrom(_, _, _)
FlattenFrom(items, i, pageCount) ==
    IF i > Len(items) THEN <<>>
    ELSE
      LET item == items[i]
          own  == IF item.page # 0
                  THEN << [title     |-> item.title,
                           level     |-> item.level,
                           startPage |-> item.page,
                           endPage   |-> SectionEndPage(items, i, pageCount)] >>
                  ELSE <<>>
          sub  == IF Len(item.children) > 0
                  THEN FlattenFrom(item.children, 1, pageCount)
                  ELSE <<>>
      IN own \o sub \o FlattenFrom(items, i + 1, pageCount)

flattenOutline(items, pageCount) == FlattenFrom(items, 1, pageCount)

\* sections.sort((a, b) => a.startPage - b.startPage): Array.prototype.sort is
\* stable, sections of one startPage keep their order
RECURSIVE SortFrom(_, _, _)
SortFrom(sections, p, maxPage) ==
    IF p > maxPage THEN <<>>
    ELSE SelectSeq(sections, LAMBDA x : x.startPage = p)
         \o SortFrom(sections, p + 1, maxPage)

SortByStartPage(sections, pageCount) == SortFrom(sections, 1, pageCount)

\* for (p = from; p <= to; p++) if (pages[p - 1]?.trim()) markdown += page + '\n\n'
RECURSIVE EmitPages(_, _, _)
EmitPages(pages, from, to) ==
    IF from > to THEN <<>>
    ELSE (IF HasText(pages, from) THEN pages[from] \o ParaSep ELSE <<>>)
         \o EmitPages(pages, from + 1, to)

\* the loop over the sorted sections, from section k on, and the trailing pages
RECURSIVE EmitSections(_, _, _, _)
EmitSections(pages, sections, k, lastEndPage) ==
    IF k > Len(sections)
    THEN EmitPages(pages, lastEndPage + 1, Len(pages))
    ELSE
      LET section == sections[k] IN
         EmitPages(pages, lastEndPage + 1, section.startPage - 1)
      \o Hashes(section.level + 1) \o <<" ">> \o section.title \o ParaSep
      \o EmitPages(pages, section.startPage, section.endPage)
      \o EmitSections(pages, sections, k + 1, section.endPage)

\* outline = <<>> stands for no outline (undefined or empty)
convertToMarkdown(pages, outline) ==
    IF Len(outline) = 0 THEN Join(pages, ParaSep)
    ELSE Trim(EmitSections(pages,
                           SortByStartPage(flattenOutline(outline, Len(pages)),
                                           Len(pages)),
                           1, 0))

(***************************************************************************)
(* Inputs of the synthesis specification: page i carries the one-character *)
(* text Marker[i] or is blank; an outline is drawn as its nodes in         *)
(* depth-first order, each with its nesting level (processOutline gives a  *)
(* child the level of its parent plus one) and its target page.            *)
(***************************************************************************)
MaxPages == 3
MaxNodes == 3

Marker == <<"1", "2", "3", "4", "5">>
TitleOf == <<"A", "B", "C", "D", "E">>

PageTextSets == UNION {[1..n -> {"text", "blank"}] : n \in 1..MaxPages}

PagesOf(kinds) ==
    [i \in 1..Len(kinds) |-> IF kinds[i] = "text" THEN <<Marker[i]>> ELSE <<" ">>]

\* level sequences of a forest in depth-first order
LevelSeqs ==
    {ls \in SeqsUpTo(0..(MaxNodes - 1), MaxNodes) :
        /\ Len(ls) > 0 => ls[1] = 0
        /\ \A k \in 2..Len(ls) : ls[k] <= ls[k - 1] + 1}

\* index after the last descendant of node k
RECURSIVE SubtreeEnd(_, _, _)
SubtreeEnd(ls, k, j) ==
    IF j <= Len(ls) /\ ls[j] > ls[k] THEN SubtreeEnd(ls, k, j + 1) ELSE j

\* the items of the nodes from..to-1 that are at level lvl
RECURSIVE BuildItems(_, _, _, _, _)
BuildItems(ls, pgs, from, to, lvl) ==
    IF from >= to THEN <<>>
    ELSE
      LET stop == SubtreeEnd(ls, from, from + 1) IN
      << [title    |-> <<TitleOf[from]>>,
          page     |-> pgs[from],
          level    |-> lvl,
          children |-> BuildItems(ls, pgs, from + 1, stop, lvl + 1)] >>
      \o BuildItems(ls, pgs, stop, to, lvl)

OutlinesFor(pageCount) ==
    UNION { {BuildItems(ls, pgs, 1, Len(ls) + 1, 0) :
                pgs \in [1..Len(ls) -> 0..pageCount]} : ls \in LevelSeqs }

\* processOutline(outline, doc, level): each item gets level, its children
\* level + 1; page is the resolved page of the item (0: not resolved)
RECURSIVE processOutline(_, _)
processOutline(outline, level) ==
    [k \in 1..Len(outline) |->
        [title    |-> outline[k].title,
         page     |-> outline[k].page,
         level    |-> level,
         children |-> processOutline(outline[k].items, level + 1)]]

\* a document of three pages with a flat outline of two entries, as
\* loadPDF hands it to convertToMarkdown: processOutline(rawOutline, doc, 0)
ExamplePages ==
    << <<"I", "n", "t", "r", "o">>,
       <<"C", "h", "1", " ", "b", "o", "d", "y">>,
       <<"C", "h", "2", " ", "b", "o", "d", "y">> >>

ExampleOutline ==
    processOutline(
        << [title |-> <<"C", "h", "a", "p", "t", "e", "r", " ", "1">>,
            page |-> 2, items |-> <<>>],
           [title |-> <<"C", "h", "a", "p", "t", "e", "r", " ", "2">>,
            page |-> 3, items |-> <<>>] >>,
        0)

MdInit ==
    /\ \/ /\ mdPages \in {PagesOf(kinds) : kinds \in PageTextSets}
          /\ mdOutline \in OutlinesFor(Len(mdPages))
       \/ /\ mdPages = ExamplePages
          /\ mdOutline = ExampleOutline
    /\ mdSections = <<>>
    /\ mdBody = <<>>
    /\ mdDone = FALSE

ConvertToMarkdown ==
    /\ ~mdDone
    /\ mdSections' = flattenOutline(mdOutline, Len(mdPages))
    /\ mdBody' = convertToMarkdown(mdPages, mdOutline)
    /\ mdDone' = TRUE
    /\ UNCHANGED <<mdPages, mdOutline>>
    /\ UNCHANGED <<pgVars, srVars, regVars, ftVars, seVars>>


(***************************************************************************)
(* Heading lines: line.match(/^(#+)\s+(.+)$/) on one line of the body.     *)
(***************************************************************************)
\* number of leading whitespace characters
RECURSIVE SpaceRun(_)
SpaceRun(text) ==
    IF Len(text) > 0 /\ IsSpace(text[1]) THEN 1 + SpaceRun(Tail(text)) ELSE 0

\* the regular expression matches: '#'s, then whitespace, then at least one
\* more character (\s+ gives back its last character when nothing follows)
IsHeadingLine(line) ==
    LET h == HashRun(line)
        w == SpaceRun(SubSeq(line, h + 1, Len(line)))
    IN h >= 1 /\ w >= 1 /\ (Len(line) > h + w \/ w >= 2)

\* headingMatch[1].length of /^(#+)\s+(.+)$/
HeadingLevel(line) == HashRun(line)

\* the (.+) group: what follows the whitespace run
HeadingTitle(line) ==
    LET h == HashRun(line)
        w == SpaceRun(SubSeq(line, h + 1, Len(line)))
    IN IF Len(line) > h + w THEN SubSeq(line, h + w + 1, Len(line))
       ELSE SubSeq(line, Len(line), Len(line))

(***************************************************************************)
(* searchPDF                                                               *)
(***************************************************************************)
DocumentStart ==
    <<"D", "o", "c", "u", "m", "e", "n", "t", " ", "S", "t", "a", "r", "t">>

\* String.prototype.toLowerCase, one character at a time; "U0130" stands for
\* LATIN CAPITAL LETTER I WITH DOT ABOVE, whose lower case is two characters
LowerChar(c) ==
    CASE c = "A" -> <<"a">>
      [] c = "B" -> <<"b">>
      [] c = "H" -> <<"h">>
      [] c = "U0130" -> <<"i", "U0307">>
      [] OTHER -> <<c>>

RECURSIVE ToLowerCase(_)
ToLowerCase(text) ==
    IF Len(text) = 0 THEN <<>>
    ELSE LowerChar(text[1]) \o ToLowerCase(Tail(text))

\* the last heading line among lines[1..i], scanning backward from i
RECURSIVE LastHeadingTitle(_, _)
LastHeadingTitle(lines, i) ==
    IF i < 1 THEN DocumentStart
    ELSE IF IsHeadingLine(lines[i]) THEN HeadingTitle(lines[i])
    ELSE LastHeadingTitle(lines, i - 1)

findSectionForPosition(markdown, position) ==
    LET lines == Split(Substring(markdown, 0, position), <<NL>>)
    IN LastHeadingTitle(lines, Len(lines))

\* the record pushed on matches for a match of length len at position; the
\* position field is not in the source's record, it keeps the loop's position
\* for the match
MatchRecord(markdown, position, len, contextChars) ==
    [position |-> position,
     text    |-> Substring(markdown, position, position + len),
     context |-> Trim(Substring(markdown,
                                Max2(0, position - contextChars),
                                Min2(Len(markdown), position + len + contextChars))),
     section |-> findSectionForPosition(markdown, position)]

\* maxResults && totalMatches >= maxResults; maxResults is <<>> when omitted
\* and <<k>> when given
LimitReached(maxResults, totalMatches) ==
    /\ Len(maxResults) = 1
    /\ maxResults[1] # 0
    /\ totalMatches >= maxResults[1]


\* new RegExp(query, flags) for the patterns of the model: a pattern is a
\* sequence of characters, each optionally followed by '*'; '(' opens a group
\* that is never closed and a '*' with nothing to repeat is a syntax error
ValidRegExp(query) ==
    \A k \in 1..Len(query) :
        /\ query[k] # "("
        /\ query[k] = "*" => (k >= 2 /\ query[k - 1] # "*")

RECURSIVE ParseAtoms(_, _)
ParseAtoms(query, k) ==
    IF k > Len(query) THEN <<>>
    ELSE IF k + 1 <= Len(query) /\ query[k + 1] = "*"
    THEN <<[ch |-> query[k], star |-> TRUE]>> \o ParseAtoms(query, k + 2)
    ELSE <<[ch |-> query[k], star |-> FALSE]>> \o ParseAtoms(query, k + 1)

\* one character of the pattern against one of the text, under flag i or not
CharMatches(c, ch, ignoreCase) ==
    IF ignoreCase THEN LowerChar(c) = LowerChar(ch) ELSE c = ch

\* how many characters from pos (0-based) on match ch
RECURSIVE RunLength(_, _, _, _)
RunLength(text, pos, ch, ignoreCase) ==
    IF pos < Len(text) /\ CharMatches(text[pos + 1], ch, ignoreCase)
    THEN 1 + RunLength(text, pos + 1, ch, ignoreCase)
    ELSE 0

\* the end (exclusive) of the match of atoms[k..] at pos, -1 when there is
\* none; a starred atom is greedy and backtracks
RECURSIVE MatchEnd(_, _, _, _, _)
RECURSIVE TryStar(_, _, _, _, _, _)
MatchEnd(atoms, k, text, pos, ignoreCase) ==
    IF k > Len(atoms) THEN pos
    ELSE IF atoms[k].star
    THEN TryStar(atoms, k, text, pos,
                 RunLength(text, pos, atoms[k].ch, ignoreCase), ignoreCase)
    ELSE IF pos < Len(text) /\ CharMatches(text[pos + 1], atoms[k].ch, ignoreCase)
    THEN MatchEnd(atoms, k + 1, text, pos + 1, ignoreCase)
    ELSE -1

TryStar(atoms, k, text, pos, n, ignoreCase) ==
    IF n < 0 THEN -1
    ELSE LET end == MatchEnd(atoms, k + 1, text, pos + n, ignoreCase) IN
         IF end # -1 THEN end
         ELSE TryStar(atoms, k, text, pos, n - 1, ignoreCase)

\* regexPattern.exec(text) from lastIndex: the leftmost match, as
\* [index, end], index = -1 for null
RECURSIVE Exec(_, _, _, _)
Exec(atoms, text, lastIndex, ignoreCase) ==
    IF lastIndex > Len(text) THEN [index |-> -1, end |-> -1]
    ELSE LET end == MatchEnd(atoms, 1, text, lastIndex, ignoreCase) IN
         IF end # -1 THEN [index |-> lastIndex, end |-> end]
         ELSE Exec(atoms, text, lastIndex + 1, ignoreCase)

\* a scan that passes over one position after a zero-width match
SkipsAPosition(match) ==
    IF match.index = match.end THEN match.end + 2 ELSE match.end

\* lastIndex after exec is the end of the match, and
\* if (match.index === regexPattern.lastIndex) regexPattern.lastIndex++
NextLastIndex(match) ==
    IF match.index = match.end THEN match.end + 1 ELSE match.end

\* the while loop of the regex branch
RECURSIVE RegexScan(_, _, _, _, _, _, _)
RegexScan(markdown, atoms, ignoreCase, lastIndex, maxResults, contextChars, matches) ==
    LET match == Exec(atoms, markdown, lastIndex, ignoreCase) IN
    IF match.index = -1 THEN matches
    ELSE IF LimitReached(maxResults, Len(matches)) THEN matches
    ELSE RegexScan(markdown, atoms, ignoreCase, NextLastIndex(match),
                   maxResults, contextChars,
                   Append(matches,
                          MatchRecord(markdown, match.index,
                                      match.end - match.index, contextChars)))

\* the while loop of the literal branch
RECURSIVE LiteralScan(_, _, _, _, _, _, _, _)
LiteralScan(markdown, markdownText, searchText, queryLength, position, maxResults, contextChars, matches) ==
    LET at == IndexOf(markdownText, searchText, position) IN
    IF at = -1 THEN matches
    ELSE IF LimitReached(maxResults, Len(matches)) THEN matches
    ELSE LiteralScan(markdown, markdownText, searchText, queryLength,
                     at + queryLength, maxResults, contextChars,
                     Append(matches,
                            MatchRecord(markdown, at, queryLength, contextChars)))

\* the literal loop never leaves position 0: the empty query is found there
\* again after position += 0, and no limit stops it
LiteralLoopsForever(query, maxResults) ==
    /\ Len(query) = 0
    /\ (Len(maxResults) = 0 \/ maxResults[1] = 0)

\* a grouping that opens a group for every match
OneGroupPerMatch(matches, k, groups) ==
    [j \in 1..Len(matches) |->
        [page |-> 0, section |-> matches[j].section,
         matches |-> <<[text |-> matches[j].text, context |-> matches[j].context]>>]]

\* groupedBySection: a Map, its keys in first-insertion order
RECURSIVE GroupBySection(_, _, _)
GroupBySection(matches, k, groups) ==
    IF k > Len(matches) THEN groups
    ELSE
      LET m     == matches[k]
          entry == [text |-> m.text, context |-> m.context]
          known == {g \in 1..Len(groups) : groups[g].section = m.section}
      IN GroupBySection(matches, k + 1,
            IF known = {}
            THEN Append(groups, [page |-> 0, section |-> m.section,
                                 matches |-> <<entry>>])
            ELSE [g \in 1..Len(groups) |->
                    IF g \in known
                    THEN [groups[g] EXCEPT !.matches = Append(@, entry)]
                    ELSE groups[g]])

\* the matches array of searchPDF when the scan ends
ScanMatches(markdown, query, caseSensitive, regex, maxResults, contextChars) ==
    IF regex
    THEN RegexScan(markdown, ParseAtoms(query, 1), ~caseSensitive, 0,
                   maxResults, contextChars, <<>>)
    ELSE LiteralScan(markdown,
                     IF caseSensitive THEN markdown ELSE ToLowerCase(markdown),
                     IF caseSensitive THEN query ELSE ToLowerCase(query),
                     Len(query), 0, maxResults, contextChars, <<>>)

\* searchPDF on the markdown of a loaded document: status "ok" with the
\* matches found and the results returned, "invalid_pattern" for the thrown
\* error, "diverges" when the call never returns
searchPDF(markdown, query, caseSensitive, regex, maxResults, contextChars) ==
    IF regex /\ ~ValidRegExp(query)
    THEN [status |-> "invalid_pattern", matches |-> <<>>, results |-> <<>>]
    ELSE IF ~regex /\ LiteralLoopsForever(query, maxResults)
    THEN [status |-> "diverges", matches |-> <<>>, results |-> <<>>]
    ELSE LET matches == ScanMatches(markdown, query, caseSensitive, regex,
                                    maxResults, contextChars)
         IN [status  |-> "ok",
             matches |-> matches,
             results |-> GroupBySection(matches, 1, <<>>)]

(***************************************************************************)
(* Inputs of the search specification: a body is a few lines joined by     *)
(* line feeds.                                                             *)
(***************************************************************************)
MaxLines == 3
MaxLimit == 2
MaxContext == 1

LineSet ==
    { <<"#", " ", "A", "b">>,
      <<"#", "#", " ", "B">>,
      <<"a", "b", " ", "a">>,
      <<>> }

QuerySet ==
    { <<>>, <<"a">>, <<"b">>, <<"B">>, <<"a", "b">>, <<"#">>,
      <<"a", "*">>, <<"(">> }

Bodies == {Join(ls, <<NL>>) : ls \in SeqsUpTo(LineSet, MaxLines)}

SrInit ==
    /\ srBody \in Bodies
    /\ srQuery \in QuerySet
    /\ srCase \in BOOLEAN
    /\ srRegex \in BOOLEAN
    /\ srMax \in {<<>>} \cup {<<k>> : k \in 0..MaxLimit}
    /\ srContext \in 0..MaxContext
    /\ srResult = [status |-> "none", matches |-> <<>>, results |-> <<>>]
    /\ srDone = FALSE

SrIdle ==
    /\ srBody = <<>>
    /\ srQuery = <<>>
    /\ srCase = FALSE
    /\ srRegex = FALSE
    /\ srMax = <<>>
    /\ srContext = 0
    /\ srResult = [status |-> "none", matches |-> <<>>, results |-> <<>>]
    /\ srDone = FALSE

Search ==
    /\ ~srDone
    /\ srResult' = searchPDF(srBody, srQuery, srCase, srRegex, srMax, srContext)
    /\ srDone' = TRUE
    /\ UNCHANGED <<srBody, srQuery, srCase, srRegex, srMax, srContext>>
    /\ UNCHANGED <<pgVars, mdVars, regVars, ftVars, seVars>>


(***************************************************************************)
(* extractSection, on the markdown of the document it got from loadedPDFs  *)
(***************************************************************************)
\* String.prototype.includes
Includes(text, pat) == IndexOf(text, pat, 0) # -1

\* a test in one direction only: the title contains the query
TitleContainsQuery(line, normalizedQuery) ==
    Includes(Trim(ToLowerCase(HeadingTitle(line))), normalizedQuery)

\* title.includes(normalizedQuery) || normalizedQuery.includes(title), with
\* title = headingMatch[2].toLowerCase().trim()
TitleMatches(line, normalizedQuery) ==
    LET title == Trim(ToLowerCase(HeadingTitle(line)))
    IN Includes(title, normalizedQuery) \/ Includes(normalizedQuery, title)

\* the for loop while sectionStart === -1: the index (from 0) of the first
\* heading line that matches, from line i on; -1 when there is none
RECURSIVE FindSectionStart(_, _, _)
FindSectionStart(lines, normalizedQuery, i) ==
    IF i >= Len(lines) THEN -1
    ELSE IF IsHeadingLine(lines[i + 1]) /\ TitleMatches(lines[i + 1], normalizedQuery)
    THEN i
    ELSE FindSectionStart(lines, normalizedQuery, i + 1)

\* a section that ends at the next heading line, whatever its level
RECURSIVE NextHeadingLine(_, _, _)
NextHeadingLine(lines, sectionLevel, i) ==
    IF i >= Len(lines) THEN Len(lines)
    ELSE IF IsHeadingLine(lines[i + 1]) THEN i
    ELSE NextHeadingLine(lines, sectionLevel, i + 1)

\* the for loop once sectionStart is set: the index of the next heading line
\* with level <= sectionLevel, from line i on; lines.length when there is none
RECURSIVE FindSectionEnd(_, _, _)
FindSectionEnd(lines, sectionLevel, i) ==
    IF i >= Len(lines) THEN Len(lines)
    ELSE IF IsHeadingLine(lines[i + 1]) /\ HeadingLevel(lines[i + 1]) <= sectionLevel
    THEN i
    ELSE FindSectionEnd(lines, sectionLevel, i + 1)

\* every heading title of the body, in the order of the lines
RECURSIVE AllSections(_)
AllSections(lines) ==
    IF Len(lines) = 0 THEN <<>>
    ELSE (IF IsHeadingLine(lines[1]) THEN <<HeadingTitle(lines[1])>> ELSE <<>>)
         \o AllSections(Tail(lines))

MaxSuggestions == 5     \* sections.slice(0, 5)

\* a list of suggestions that is not cut
AllSectionsOf(markdown, query) == AllSections(Split(markdown, <<NL>>))

findSimilarSections(markdown, query) ==
    LET sections == AllSections(Split(markdown, <<NL>>))
    IN SubSeq(sections, 1, Min2(MaxSuggestions, Len(sections)))

\* a range test that refuses the last page
PageNotBeforeLast(page, total) == page < 1 \/ page >= total

\* page < 1 || page > pages.length
PageOutOfRange(page, total) == page < 1 \/ page > total

NoSectionPage ==
    [status |-> "none", page |-> 0, totalPages |-> 0, content |-> <<>>,
     section |-> <<>>, suggestions |-> <<>>, sectionStart |-> -1,
     sectionEnd |-> 0, fullContent |-> <<>>]

\* the outcome of extractSection: the SectionPage returned, or the error
\* thrown (status); sectionStart, sectionEnd and fullContent are its locals
extractSection(markdown, sectionTitle, page, charsPerPage) ==
    LET normalizedQuery == Trim(ToLowerCase(sectionTitle))
        lines           == Split(markdown, <<NL>>)
        sectionStart    == FindSectionStart(lines, normalizedQuery, 0)
    IN IF sectionStart = -1
       THEN [NoSectionPage EXCEPT
               !.status = "not_found",
               !.sectionEnd = Len(lines),
               !.suggestions = findSimilarSections(markdown, sectionTitle)]
       ELSE LET sectionLevel == HeadingLevel(lines[sectionStart + 1])
                matchedTitle == HeadingTitle(lines[sectionStart + 1])
                sectionEnd   == FindSectionEnd(lines, sectionLevel, sectionStart + 1)
                fullContent  == Trim(Join(SubSeq(lines, sectionStart + 1, sectionEnd),
                                          <<NL>>))
                pages        == paginateContent(fullContent, charsPerPage)
                found        == [NoSectionPage EXCEPT
                                   !.sectionStart = sectionStart,
                                   !.sectionEnd = sectionEnd,
                                   !.fullContent = fullContent,
                                   !.totalPages = Len(pages)]
            IN IF PageOutOfRange(page, Len(pages))
               THEN [found EXCEPT !.status = "out_of_range"]
               ELSE [found EXCEPT !.status = "ok",
                                  !.page = page,
                                  !.content = pages[page],
                                  !.section = matchedTitle]

(***************************************************************************)
(* Inputs of the section specification: bodies of a few lines, and bodies  *)
(* that are a run of headings.                                             *)
(***************************************************************************)
MaxSeLines == 4
MaxHeadings == 7
MaxSePage == 3

SeLineSet ==
    { <<"#", " ", "A", "b">>,
      <<"#", "#", " ", "B", " ">>,
      <<"x">>,
      <<>> }

HeadingTitles == <<"c", "d", "e", "f", "g", "h", "i", "j", "k", "l">>

\* the i-th line of a run of headings: levels 1 and 2 in turn
HeadingLineNo(i) ==
    (IF i % 2 = 1 THEN <<"#">> ELSE <<"#", "#">>)
        \o <<" ", HeadingTitles[((i - 1) % Len(HeadingTitles)) + 1]>>

SeBodies ==
    {Join(ls, <<NL>>) : ls \in SeqsUpTo(SeLineSet, MaxSeLines)}
        \cup {Join([i \in 1..n |-> HeadingLineNo(i)], <<NL>>) : n \in 1..MaxHeadings}

SeTitles ==
    { <<>>, <<"b">>, <<"x", "b">>, <<" ", "A", "B", " ">>, <<"z", "z">> }

SeBudgets == {4, 12}

SeInit ==
    /\ seBody \in SeBodies
    /\ seTitle \in SeTitles
    /\ sePage \in 0..MaxSePage
    /\ seBudget \in SeBudgets
    /\ seResult = NoSectionPage
    /\ seDone = FALSE

SeIdle ==
    /\ seBody = <<>>
    /\ seTitle = <<>>
    /\ sePage = 0
    /\ seBudget = 0
    /\ seResult = NoSectionPage
    /\ seDone = FALSE

ExtractSection ==
    /\ ~seDone
    /\ seResult' = extractSection(seBody, seTitle, sePage, seBudget)
    /\ seDone' = TRUE
    /\ UNCHANGED <<seBody, seTitle, sePage, seBudget>>
    /\ UNCHANGED <<pgVars, mdVars, srVars, regVars, ftVars>>


(***************************************************************************)
(* Locators and generateUniqueId                                           *)
(*                                                                         *)
(* A locator (the filePath argument) is a record: kind "file" or "url",    *)
(* the host of a URL, whether a filesystem path is absolute, its segments  *)
(* as written (a "." segment included) and the query string of a URL.      *)
(* The locators of the model hold no ".." segment.                         *)
(***************************************************************************)
FileLoc(abs, segs) ==
    [kind |-> "file", host |-> "", abs |-> abs, segs |-> segs, query |-> ""]

UrlLoc(host, segs, query) ==
    [kind |-> "url", host |-> host, abs |-> TRUE, segs |-> segs, query |-> query]

\* filePath.startsWith('http://') || filePath.startsWith('https://')
IsUrl(filePath) == filePath.kind = "url"

\* the segments left by path.normalize, and by URL.pathname: "." segments
\* and empty segments are dropped
DropDots(segs) == SelectSeq(segs, LAMBDA x : x # "." /\ x # "")

\* normalizedPath: a URL as written, a filesystem path through path.normalize
NormalizePath(filePath) ==
    IF IsUrl(filePath) THEN filePath
    ELSE [filePath EXCEPT !.segs = DropDots(@)]

\* parts: the non-empty segments of the URL's pathname or of the normalized path
PathParts(filePath) == DropDots(filePath.segs)

\* path.sep, and '/' for a URL
Separator == "/"

\* parts.join(separator), on strings
RECURSIVE JoinStr(_, _)
JoinStr(parts, sep) ==
    IF Len(parts) = 0 THEN ""
    ELSE IF Len(parts) = 1 THEN parts[1]
    ELSE parts[1] \o sep \o JoinStr(Tail(parts), sep)

\* parts.slice(-i)
LastParts(parts, i) == SubSeq(parts, Len(parts) - i + 1, Len(parts))

(***************************************************************************)
(* loadedPDFs: a Map, modelled as the sequence of its values in insertion  *)
(* order (every value carries its key in the field id).                    *)
(***************************************************************************)
MapHas(map, id) == \E k \in 1..Len(map) : map[k].id = id

MapGet(map, id) == map[CHOOSE k \in 1..Len(map) : map[k].id = id]

\* Map.prototype.set: an existing key keeps its place
MapSet(map, id, value) ==
    IF MapHas(map, id)
    THEN [k \in 1..Len(map) |-> IF map[k].id = id THEN value ELSE map[k]]
    ELSE Append(map, value)

\* a delete that empties the map
MapClear(map, id) == <<>>

\* Map.prototype.delete
MapDelete(map, id) == SelectSeq(map, LAMBDA v : v.id # id)

\* an id is never recognised as the id of this locator
NeverExistingPath(map, id, normalizedPath) == FALSE

\* existingPaths.get(id) === normalizedPath
ExistingPathIs(map, id, normalizedPath) ==
    MapHas(map, id) /\ NormalizePath(MapGet(map, id).path) = normalizedPath

\* an id that is always the whole path
FullPathCandidate(map, parts, normalizedPath, i) == JoinStr(parts, Separator)

\* the for loop over i = 1..parts.length and the return after it
RECURSIVE CandidateFrom(_, _, _, _)
CandidateFrom(map, parts, normalizedPath, i) ==
    IF i > Len(parts) THEN JoinStr(parts, Separator)
    ELSE LET candidateId == JoinStr(LastParts(parts, i), Separator) IN
         IF ~MapHas(map, candidateId) THEN candidateId
         ELSE IF ExistingPathIs(map, candidateId, normalizedPath) THEN candidateId
         ELSE CandidateFrom(map, parts, normalizedPath, i + 1)

generateUniqueId(map, filePath) ==
    LET normalizedPath == NormalizePath(filePath)
        parts          == PathParts(filePath)
    IN IF Len(parts) = 0 THEN "unknown.pdf"
       ELSE IF ExistingPathIs(map, parts[Len(parts)], normalizedPath)
       THEN parts[Len(parts)]
       ELSE CandidateFrom(map, parts, normalizedPath, 1)

\* a cacheData that misses the entry added last
CacheDataButLast(map) ==
    [k \in 1..Len(map) - 1 |-> [id |-> map[k].id, path |-> map[k].path]]

\* cacheData of saveCache: the {id, path} pairs of the registry, in its order
CacheData(map) == [k \in 1..Len(map) |-> [id |-> map[k].id, path |-> map[k].path]]


(***************************************************************************)
(* The registry: loadPDF, unloadPDF, saveCache and the reading calls, as   *)
(* calls in flight that interleave at their awaits.                        *)
(***************************************************************************)
MaxCalls == 4       \* loadPDF and unloadPDF calls made in one behaviour
MaxInFlight == 2    \* calls of loadPDF / unloadPDF that may overlap

Slots == 1..MaxInFlight

Locators ==
    { FileLoc(TRUE, <<"a", "report.pdf">>),
      FileLoc(TRUE, <<"b", "report.pdf">>),
      UrlLoc("h", <<"report.pdf">>, "") }

NoLoc == FileLoc(FALSE, <<>>)

\* what the decoding collaborator delivers for every source of the model: one
\* page of text, an outline of one entry, a metadata dictionary
SourcePages == << <<"1">> >>
SourceOutline ==
    << [title |-> <<"A">>, page |-> 1, level |-> 0, children |-> <<>>] >>
SourceInfo == [Title |-> "T"]

\* how the decoding of a source goes: the files deliver everything, for the
\* remote document every best-effort extraction (getMetadata, getOutline, the
\* text of the page) fails
DecodeOutcome(filePath) ==
    IF IsUrl(filePath)
    THEN [metadataOk |-> FALSE, outlineOk |-> FALSE, failedPages |-> {1}]
    ELSE [metadataOk |-> TRUE, outlineOk |-> TRUE, failedPages |-> {}]

IdleTask ==
    [pc |-> "idle", filePath |-> NoLoc, numPages |-> 0, metadata |-> <<>>,
     outline |-> <<>>, id |-> "", cacheData |-> <<>>, alone |-> FALSE]

\* alone is a history field of a call in flight: no other call of loadPDF or
\* unloadPDF has been in flight since this one was made
NoOtherCall(t) == \A u \in Slots : u # t => tasks[u].pc = "idle"

\* the calls in flight when the call of slot t is made, no longer alone
WithCall(t, task) ==
    [u \in Slots |-> IF u = t THEN [task EXCEPT !.alone = NoOtherCall(t)]
                     ELSE [tasks[u] EXCEPT !.alone = FALSE]]

\* restoreCache: not running ("off"), awaiting readFile, replaying the
\* entries left in items through loadPDF, or returned ("done"); loaded and
\* read are history fields: the paths whose loadPDF returned during the
\* replay, and the pairs of the file as readFile delivered them
NoRestore == [pc |-> "off", items |-> <<>>, loaded |-> {}, read |-> <<>>]

\* main has connected the server: the tools are called
Serving == restore.pc \in {"off", "done"}

\* lastEv is a history variable: the last call that wrote loadedPDFs (a
\* registration of loadPDF, or unloadPDF), the id it returned or was given and
\* the size of loadedPDFs after it.  repeat says that it is a registration
\* directly after a registration of the same filePath; firstId and firstSize
\* are then the id and the size of that earlier registration.
NoEvent ==
    [op |-> "none", filePath |-> NoLoc, id |-> "", size |-> 0,
     repeat |-> FALSE, firstId |-> "", firstSize |-> 0, removed |-> FALSE]
NothingObserved ==
    [id |-> "", found |-> FALSE, docs |-> <<>>, error |-> "", filePath |-> NoLoc]

\* the message the catch of loadPDF puts before the message of the cause
LoadError == "Failed to load PDF"

\* the message of the Error the reading calls throw for an id that is not a
\* key of loadedPDFs
NotFoundError == "PDF not found. Please load it first."

\* a lookup that hands out the first document when the id is unknown
GetOrFirst(map, pdfId) ==
    [id |-> pdfId, found |-> MapHas(map, pdfId),
     docs |-> IF MapHas(map, pdfId) THEN <<MapGet(map, pdfId)>>
              ELSE IF map # <<>> THEN <<map[1]>> ELSE <<>>,
     error |-> "", filePath |-> NoLoc]

\* const pdf = this.loadedPDFs.get(pdfId); if (!pdf) throw new Error(...):
\* the first statements of extractSection, searchPDF, getPDFInfo and
\* extractOutline (which getFormattedOutline awaits first)
GetOrThrow(map, pdfId) ==
    [id |-> pdfId, found |-> MapHas(map, pdfId),
     docs |-> IF MapHas(map, pdfId) THEN <<MapGet(map, pdfId)>> ELSE <<>>,
     error |-> IF MapHas(map, pdfId) THEN "" ELSE NotFoundError,
     filePath |-> NoLoc]

\* the CallToolRequestSchema handler: the value of the call becomes the text
\* of the response; a thrown error is caught and becomes the text
\* "Error: " followed by its message, and the handler returns
ToolResponse(result) ==
    IF result.error # ""
    THEN [content |-> <<"Error: ", result.error>>]
    ELSE [content |-> result.docs]

\* a record stored before its body is built
RecordWithoutBody(id, task, markdown) ==
    [id |-> id, path |-> task.filePath, pageCount |-> task.numPages,
     markdown |-> <<>>, metadata |-> task.metadata, outline |-> task.outline]

\* the object literal stored by loadPDF
LoadedRecord(id, task, markdown) ==
    [id        |-> id,
     path      |-> task.filePath,
     pageCount |-> task.numPages,
     markdown  |-> markdown,
     metadata  |-> task.metadata,
     outline   |-> task.outline]

\* numPages, metadata and outline of the call once the document is decoded
Decoded(task, decoded) ==
    [task EXCEPT !.numPages = Len(SourcePages),
                 !.metadata = IF decoded.metadataOk THEN <<SourceInfo>> ELSE <<>>,
                 !.outline  = IF decoded.outlineOk THEN SourceOutline ELSE <<>>]

\* the pages array: the text of each page, '' for a page that failed
DecodedPages(decoded) ==
    [i \in 1..Len(SourcePages) |->
        IF i \in decoded.failedPages THEN <<>> ELSE SourcePages[i]]

\* a step of loadPDF or unloadPDF: what an earlier reading call got is gone
\* with that call
Quiet ==
    observed' = NothingObserved /\ UNCHANGED <<pgVars, mdVars, srVars, ftVars, seVars>>

RegInit ==
    /\ loadedPDFs = <<>>
    /\ cacheFile = [exists |-> FALSE, data |-> <<>>]
    /\ dirExists = FALSE
    /\ tasks = [t \in Slots |-> IdleTask]
    /\ calls = 0
    /\ lastEv = NoEvent
    /\ observed = NothingObserved
    /\ restore = NoRestore

\* a call takes the lowest free slot
FreeSlot(t) ==
    /\ tasks[t].pc = "idle"
    /\ \A u \in Slots : u < t => tasks[u].pc # "idle"

\* saveCache up to its first await: mkdir when the directory is missing,
\* else cacheData is taken and writeFile is awaited
EnterSaveCache(task, map) ==
    IF dirExists
    THEN [task EXCEPT !.pc = "writeFile", !.cacheData = CacheData(map)]
    ELSE [task EXCEPT !.pc = "mkdir"]

\* the call throws or returns: its slot is free again
Finish(t) == tasks' = [tasks EXCEPT ![t] = IdleTask]

\* loadPDF(filePath) up to its first await: fetch for a URL, else readFile
StartedLoad(filePath) ==
    [IdleTask EXCEPT !.filePath = filePath,
                     !.pc = IF IsUrl(filePath) THEN "fetch" ELSE "readFile"]

\* loadPDF(filePath) is called and runs to its first await
CallLoad(t, filePath) ==
    /\ Serving
    /\ FreeSlot(t)
    /\ calls < MaxCalls
    /\ calls' = calls + 1
    /\ tasks' = WithCall(t, StartedLoad(filePath))
    /\ UNCHANGED <<loadedPDFs, cacheFile, dirExists, lastEv, restore>>
    /\ Quiet

\* await fetchWithTimeout(filePath) resolves with a response that is ok
FetchResponds(t) ==
    /\ tasks[t].pc = "fetch"
    /\ tasks' = [tasks EXCEPT ![t].pc = "arrayBuffer"]
    /\ UNCHANGED <<loadedPDFs, cacheFile, dirExists, calls, lastEv, restore>>
    /\ Quiet

\* a failing load that takes the entries of its locator with it
LoadFailsUnregistering(t) ==
    /\ tasks[t].pc \in {"readFile", "fetch", "arrayBuffer"}
    /\ Finish(t)
    /\ loadedPDFs' = SelectSeq(loadedPDFs, LAMBDA v : v.path # tasks[t].filePath)
    /\ observed' = [NothingObserved EXCEPT !.error = LoadError,
                                           !.filePath = tasks[t].filePath]
    /\ UNCHANGED <<cacheFile, dirExists, calls, lastEv, restore>>
    /\ UNCHANGED <<pgVars, mdVars, srVars, ftVars, seVars>>

\* an await of loadPDF before the registration rejects (unreadable file,
\* response not ok, network error, fetch timeout, undecodable document): the
\* catch rethrows "Failed to load PDF: ..." to the caller of filePath
LoadFails(t) ==
    /\ tasks[t].pc \in {"readFile", "fetch", "arrayBuffer"}
    /\ Finish(t)
    /\ observed' = [NothingObserved EXCEPT !.error = LoadError,
                                           !.filePath = tasks[t].filePath]
    /\ UNCHANGED <<loadedPDFs, cacheFile, dirExists, calls, lastEv, restore>>
    /\ UNCHANGED <<pgVars, mdVars, srVars, ftVars, seVars>>

\* The awaits of loadPDF from the arrival of the bytes (readFile, or
\* arrayBuffer for a URL) to the text of the last page touch only locals of
\* the call and are one step here.  A failure of getMetadata leaves metadata
\* null (<<>>), a failure of getOutline leaves outline undefined (<<>>), a
\* page whose extraction failed is pushed as ''.  Then loadPDF runs on without
\* an await: convertToMarkdown, generateUniqueId, loadedPDFs.set, and
\* saveCache up to its first await.
Register(t) ==
    /\ tasks[t].pc \in {"readFile", "arrayBuffer"}
    /\ LET decoded  == DecodeOutcome(tasks[t].filePath)
           task     == Decoded(tasks[t], decoded)
           pages    == DecodedPages(decoded)
           markdown == convertToMarkdown(pages, task.outline)
           id       == generateUniqueId(loadedPDFs, task.filePath)
           map      == MapSet(loadedPDFs, id, LoadedRecord(id, task, markdown))
       IN /\ loadedPDFs' = map
          /\ tasks' = [tasks EXCEPT ![t] =
                          EnterSaveCache([task EXCEPT !.id = id], map)]
          /\ lastEv' =
                LET repeat == lastEv.op = "load" /\ lastEv.filePath = task.filePath
                IN [op |-> "load", filePath |-> task.filePath, id |-> id,
                    size |-> Len(map), repeat |-> repeat, removed |-> FALSE,
                    firstId |-> IF repeat THEN lastEv.id ELSE id,
                    firstSize |-> IF repeat THEN lastEv.size ELSE Len(map)]
    /\ restore' = IF restore.pc = "loadPDF"
                  THEN [restore EXCEPT !.loaded = @ \cup {tasks[t].filePath}]
                  ELSE restore
    /\ UNCHANGED <<cacheFile, dirExists, calls>>
    /\ Quiet

\* await mkdir resolves; cacheData is taken from the registry as it is now
MkdirDone(t) ==
    /\ tasks[t].pc = "mkdir"
    /\ dirExists' = TRUE
    /\ tasks' = [tasks EXCEPT ![t].pc = "writeFile",
                              ![t].cacheData = CacheData(loadedPDFs)]
    /\ UNCHANGED <<loadedPDFs, cacheFile, calls, lastEv, restore>>
    /\ Quiet

\* await writeFile resolves: the file holds the cacheData of this call, and
\* the call that ran saveCache returns
WriteFileDone(t) ==
    /\ tasks[t].pc = "writeFile"
    /\ cacheFile' = [exists |-> TRUE, data |-> tasks[t].cacheData]
    /\ Finish(t)
    /\ UNCHANGED <<loadedPDFs, dirExists, calls, lastEv, restore>>
    /\ Quiet

\* mkdir or writeFile rejects: saveCache catches and warns, the call returns
SaveCacheFails(t) ==
    /\ tasks[t].pc \in {"mkdir", "writeFile"}
    /\ Finish(t)
    /\ UNCHANGED <<loadedPDFs, cacheFile, dirExists, calls, lastEv, restore>>
    /\ Quiet

\* unloadPDF(pdfId): delete, and saveCache up to its first await when the id
\* was there; it returns false at once when it was not
CallUnload(t, pdfId) ==
    /\ Serving
    /\ FreeSlot(t)
    /\ calls < MaxCalls
    /\ calls' = calls + 1
    /\ LET removed == MapHas(loadedPDFs, pdfId)
           map     == MapDelete(loadedPDFs, pdfId)
       IN /\ loadedPDFs' = map
          /\ lastEv' = [op |-> "unload", filePath |-> NoLoc, id |-> pdfId,
                        size |-> Len(map), repeat |-> FALSE,
                        firstId |-> pdfId, firstSize |-> Len(map),
                        removed |-> removed]
          /\ tasks' = IF removed
                       THEN WithCall(t, EnterSaveCache([IdleTask EXCEPT !.id = pdfId],
                                                       map))
                       ELSE tasks
    /\ UNCHANGED <<cacheFile, dirExists, restore>>
    /\ Quiet

\* extractSection, searchPDF, getPDFInfo and extractOutline begin with
\* loadedPDFs.get(pdfId) and have no await: the call works on the record it
\* got, or throws "PDF not found"
Read(pdfId) ==
    /\ Serving
    /\ observed' = GetOrThrow(loadedPDFs, pdfId)
    /\ UNCHANGED <<loadedPDFs, cacheFile, dirExists, tasks, calls, lastEv, restore>>
    /\ UNCHANGED <<pgVars, mdVars, srVars, ftVars, seVars>>

\* listLoadedPDFs reads every value of loadedPDFs, with no await
List ==
    /\ Serving
    /\ observed' = [id |-> "", found |-> TRUE, docs |-> loadedPDFs, error |-> "",
                    filePath |-> NoLoc]
    /\ UNCHANGED <<loadedPDFs, cacheFile, dirExists, tasks, calls, lastEv, restore>>
    /\ UNCHANGED <<pgVars, mdVars, srVars, ftVars, seVars>>

\* The process ends with no call in flight and is started again: loadedPDFs
\* is a new empty Map, the cache file and its directory are what they were,
\* and main awaits restoreCache, which returns at once without a cache file
\* and else awaits readFile.  One restart is followed.
Restart ==
    /\ restore.pc = "off"
    /\ \A t \in Slots : tasks[t].pc = "idle"
    /\ loadedPDFs' = <<>>
    /\ lastEv' = NoEvent
    /\ restore' = [NoRestore EXCEPT
                     !.pc = IF cacheFile.exists THEN "readFile" ELSE "done"]
    /\ UNCHANGED <<cacheFile, dirExists, tasks, calls>>
    /\ Quiet

\* readFile and JSON.parse deliver the pairs of the cache file
RestoreReads ==
    /\ restore.pc = "readFile"
    /\ restore' = [restore EXCEPT !.pc = "loadPDF", !.items = cacheFile.data,
                                  !.read = cacheFile.data]
    /\ UNCHANGED <<loadedPDFs, cacheFile, dirExists, tasks, calls, lastEv>>
    /\ Quiet

\* readFile rejects: the outer catch warns and restoreCache returns
RestoreFails ==
    /\ restore.pc = "readFile"
    /\ restore' = [restore EXCEPT !.pc = "done"]
    /\ UNCHANGED <<loadedPDFs, cacheFile, dirExists, tasks, calls, lastEv>>
    /\ Quiet

\* the for loop: the loadPDF of the earlier item has returned or thrown (its
\* error is caught and logged), await this.loadPDF(item.path) for the next
ReplayNext ==
    /\ restore.pc = "loadPDF"
    /\ tasks[1].pc = "idle"
    /\ restore.items # <<>>
    /\ tasks' = WithCall(1, StartedLoad(Head(restore.items).path))
    /\ restore' = [restore EXCEPT !.items = Tail(@)]
    /\ UNCHANGED <<loadedPDFs, cacheFile, dirExists, calls, lastEv>>
    /\ Quiet

\* the loop is over: restoreCache returns and main connects the server
RestoreReturns ==
    /\ restore.pc = "loadPDF"
    /\ tasks[1].pc = "idle"
    /\ restore.items = <<>>
    /\ restore' = [restore EXCEPT !.pc = "done"]
    /\ UNCHANGED <<loadedPDFs, cacheFile, dirExists, tasks, calls, lastEv>>
    /\ Quiet

\* the ids a caller may pass
KnownIds == {"report.pdf", "a/report.pdf", "b/report.pdf"}

RegNext ==
    \/ \E t \in Slots, filePath \in Locators : CallLoad(t, filePath)
    \/ \E t \in Slots : FetchResponds(t)
    \/ \E t \in Slots : LoadFails(t)
    \/ \E t \in Slots : Register(t)
    \/ \E t \in Slots : MkdirDone(t)
    \/ \E t \in Slots : WriteFileDone(t)
    \/ \E t \in Slots : SaveCacheFails(t)
    \/ \E t \in Slots, pdfId \in KnownIds : CallUnload(t, pdfId)
    \/ \E pdfId \in KnownIds : Read(pdfId)
    \/ List
    \/ Restart
    \/ RestoreReads
    \/ RestoreFails
    \/ ReplayNext
    \/ RestoreReturns

(***************************************************************************)
(* Claims about paginateContent (specification SpecPaginate).              *)
(***************************************************************************)
\* the paragraphs of page occur, whole and consecutive, among the paragraphs
\* of content
IsRunOfParagraphs(page, content) ==
    LET ps == Split(content, ParaSep)
        qs == Split(page, ParaSep)
    IN \E a \in 1..Len(ps) :
          /\ a + Len(qs) - 1 <= Len(ps)
          /\ SubSeq(ps, a, a + Len(qs) - 1) = qs

\* C5: joining the returned pages with the blank-line paragraph separator
\* reproduces the input text exactly, for every text and budget.
C5_JoinReconstructs ==
    pgDone => Join(pgPages, ParaSep) = pgContent

\* C6: every returned page has length at most the budget or is exactly one
\* paragraph longer than the budget, and every page is a run of whole,
\* consecutive paragraphs of the input (none truncated, none split).
C6_PageWithinBudget ==
    pgDone =>
        \A k \in 1..Len(pgPages) :
            /\ \/ Len(pgPages[k]) <= pgBudget
               \/ /\ Len(Split(pgPages[k], ParaSep)) = 1
                  /\ Len(pgPages[k]) > pgBudget
            /\ IsRunOfParagraphs(pgPages[k], pgContent)

\* C6 witness: a result of several pages with an oversized single paragraph
\* on one page and several paragraphs sharing another
C6_Witness ==
    /\ pgDone
    /\ Len(pgPages) >= 2
    /\ \E k \in 1..Len(pgPages) : Len(pgPages[k]) > pgBudget
    /\ \E k \in 1..Len(pgPages) : Len(Split(pgPages[k], ParaSep)) >= 2


\* paragraphs a and b stand next to each other, in this order, on the page
AdjacentOn(page, a, b) ==
    LET qs == Split(page, ParaSep)
    IN \E j \in 1..Len(qs) - 1 : qs[j] = a /\ qs[j + 1] = b

\* C24: a heading paragraph and the paragraph that follows it in the input
\* are on one page whenever the two fit within the budget together, so that
\* no heading is the last paragraph of a page that is not the final one.
C24_HeadingNotOrphaned ==
    pgDone =>
        LET ps == Split(pgContent, ParaSep)
        IN \A i \in 1..Len(ps) - 1 :
              (/\ IsHeadingParagraph(ps[i])
               /\ Len(ps[i]) + Len(ps[i + 1]) + 2 <= pgBudget)
              => \E k \in 1..Len(pgPages) :
                    AdjacentOn(pgPages[k], ps[i], ps[i + 1])

(***************************************************************************)
(* Claims about convertToMarkdown (specification SpecMarkdown).            *)
(***************************************************************************)
\* how many times the character c occurs in text
CountChar(text, c) == Cardinality({k \in 1..Len(text) : text[k] = c})

\* C4: for every list of page texts and every outline shape, each page whose
\* text is not blank is emitted exactly once in the synthesized body
\* (a page i that carries the text Marker[i], which occurs nowhere else).
C4_EachPageOnce ==
    mdDone =>
        \A i \in 1..Len(mdPages) :
            mdPages[i] = <<Marker[i]>> => CountChar(mdBody, Marker[i]) = 1


\* C22: in the list flattenOutline returns, the endPage of each section is
\* the startPage of the section after it in the list less one, and the number
\* of pages for the last section.
C22_EndPageBeforeNextSection ==
    mdDone =>
        \A k \in 1..Len(mdSections) :
            mdSections[k].endPage
                = IF k < Len(mdSections)
                  THEN mdSections[k + 1].startPage - 1
                  ELSE Len(mdPages)

\* C23: every section flattenOutline returns has startPage <= endPage, the
\* target pages of the outline being pages of the document.
C23_StartNotAfterEnd ==
    mdDone =>
        \A k \in 1..Len(mdSections) :
            mdSections[k].startPage <= mdSections[k].endPage

\* the body of the example with the given heading prefix
ExampleBody(prefix) ==
    ExamplePages[1] \o ParaSep
        \o prefix \o <<" ">> \o ExampleOutline[1].title \o ParaSep
        \o ExamplePages[2] \o ParaSep
        \o prefix \o <<" ">> \o ExampleOutline[2].title \o ParaSep
        \o ExamplePages[3]

\* C17: the pages "Intro", "Ch1 body", "Ch2 body" with the flat outline
\* "Chapter 1" (page 2), "Chapter 2" (page 3) give the body
\* "Intro\n\n## Chapter 1\n\nCh1 body\n\n## Chapter 2\n\nCh2 body".
C17_ExampleBodyTwoHashes ==
    (mdDone /\ mdPages = ExamplePages /\ mdOutline = ExampleOutline)
        => mdBody = ExampleBody(<<"#", "#">>)

\* C17 amended: the same pages and outline give the body
\* "Intro\n\n# Chapter 1\n\nCh1 body\n\n# Chapter 2\n\nCh2 body": the page
\* before the first section is the prologue, and a top-level entry has
\* level 0, so its heading has depth level + 1 = 1.
C17_ExampleBody ==
    (mdDone /\ mdPages = ExamplePages /\ mdOutline = ExampleOutline)
        => mdBody = ExampleBody(<<"#">>)

\* the example document has been converted
C17_Witness ==
    /\ mdDone
    /\ mdPages = ExamplePages
    /\ mdOutline = ExampleOutline
    /\ Len(mdBody) > 0

(***************************************************************************)
(* Claims about searchPDF (specification SpecSearch).                      *)
(***************************************************************************)
\* total number of matches over all groups of a result
RECURSIVE CountMatches(_)
CountMatches(results) ==
    IF Len(results) = 0 THEN 0
    ELSE Len(results[1].matches) + CountMatches(Tail(results))

\* the number of matches a search without maxResults returns
TotalMatches ==
    CountMatches(searchPDF(srBody, srQuery, srCase, srRegex, <<>>, srContext).results)

\* C7: for every non-negative maxResults k, in literal and in regex mode, the
\* number of matches returned over all groups is min(k, total matches of the
\* body) (stated where the search without a limit returns at all).
C7_ExactlyMinOfLimitAndTotal ==
    (/\ srDone
     /\ Len(srMax) = 1
     /\ srResult.status = "ok"
     /\ (srRegex \/ Len(srQuery) > 0))
    => CountMatches(srResult.results) = Min2(srMax[1], TotalMatches)

\* 0-based offset at which line i (1-based) of lines begins
RECURSIVE LineStart(_, _)
LineStart(lines, i) ==
    IF i <= 1 THEN 0 ELSE LineStart(lines, i - 1) + Len(lines[i - 1]) + 1

\* the heading lines of the body that begin at or before offset p
HeadingsAtOrBefore(body, p) ==
    LET lines == Split(body, <<NL>>) IN
    {i \in 1..Len(lines) : IsHeadingLine(lines[i]) /\ LineStart(lines, i) <= p}

SetMax(S) == CHOOSE x \in S : \A y \in S : y <= x

\* C8: the section reported for a match at offset p is the complete title of
\* the nearest heading line that begins at or before p, and "Document Start"
\* exactly when no heading line begins at or before p.
C8_AttributedToNearestHeading ==
    (srDone /\ srResult.status = "ok") =>
        \A k \in 1..Len(srResult.matches) :
            LET m     == srResult.matches[k]
                lines == Split(srBody, <<NL>>)
                hs    == HeadingsAtOrBefore(srBody, m.position)
            IN IF hs = {} THEN m.section = DocumentStart
               ELSE m.section = HeadingTitle(lines[SetMax(hs)])

\* the matches under the label section, in the order of the scan, as the
\* {text, context} pairs the groups hold
MatchesUnder(matches, section) ==
    LET own == SelectSeq(matches, LAMBDA m : m.section = section)
    IN [k \in 1..Len(own) |-> [text |-> own[k].text, context |-> own[k].context]]

\* index of the first match under the label section
FirstUnder(matches, section) ==
    CHOOSE k \in 1..Len(matches) :
        /\ matches[k].section = section
        /\ \A j \in 1..(k - 1) : matches[j].section # section

\* C25: the results are one group per section label, the groups in the order
\* of the first match of each label; a group holds exactly the matches found
\* under its label, in ascending offset order, so every match is in exactly
\* one group; the text of a match is the substring of the body as written at
\* the offset of the match.
C25_GroupedInFirstSeenOrder ==
    (srDone /\ srResult.status = "ok") =>
        LET ms == srResult.matches
            rs == srResult.results
        IN /\ \A k \in 1..Len(ms) : \E g \in 1..Len(rs) : rs[g].section = ms[k].section
           /\ \A g \in 1..Len(rs) : \E k \in 1..Len(ms) : ms[k].section = rs[g].section
           /\ \A g, h \in 1..Len(rs) :
                 g < h => /\ rs[g].section # rs[h].section
                          /\ FirstUnder(ms, rs[g].section) < FirstUnder(ms, rs[h].section)
           /\ \A g \in 1..Len(rs) : rs[g].matches = MatchesUnder(ms, rs[g].section)
           /\ \A j, k \in 1..Len(ms) : j < k => ms[j].position <= ms[k].position
           /\ \A k \in 1..Len(ms) :
                 ms[k].text = Substring(srBody, ms[k].position,
                                        ms[k].position + Len(ms[k].text))

\* a case-insensitive literal search whose matches come under one label,
\* then another, then the first again, one of them in another case than the
\* query
C25_Witness ==
    /\ srDone
    /\ srResult.status = "ok"
    /\ ~srRegex
    /\ ~srCase
    /\ Len(srResult.results) = 2
    /\ \E i, j, k \in 1..Len(srResult.matches) :
          /\ i < j /\ j < k
          /\ srResult.matches[i].section = srResult.matches[k].section
          /\ srResult.matches[i].section # srResult.matches[j].section
    /\ \E k \in 1..Len(srResult.matches) : srResult.matches[k].text # srQuery

\* C28: every call of searchPDF returns, with its results or with the error
\* of an invalid pattern, for every query, literal or regex, empty or not,
\* every body and every maxResults, given or omitted.
C28_SearchReturns ==
    srDone => srResult.status \in {"ok", "invalid_pattern"}

(***************************************************************************)
(* The download of loadPDF for a URL: fetchWithTimeout, then                *)
(* response.arrayBuffer(), against a clock.  elapsed is the time since the  *)
(* call, in milliseconds; the remote stalls for as long as time passes      *)
(* without the response or the body arriving.                               *)
(***************************************************************************)
FetchTimeout == 60000   \* fetchTimeout

TickMs == 20000         \* the step of the clock
MaxElapsed == 100000    \* the clock of a download is followed up to here

IdleFetch == [pc |-> "idle", elapsed |-> 0, timer |-> "none", error |-> ""]

FtIdle == fetches = [t \in Slots |-> IdleFetch]

Pending(f) == f.pc \in {"fetch", "arrayBuffer"}

\* the callback of setTimeout is due
TimerDue(f) == f.timer = "armed" /\ f.elapsed >= FetchTimeout

\* loadPDF(url) calls fetchWithTimeout: setTimeout(abort, timeout), then
\* await fetch(url, {signal})
CallFetchWithTimeout(t) ==
    /\ fetches[t].pc = "idle"
    /\ fetches' = [fetches EXCEPT ![t] =
                      [pc |-> "fetch", elapsed |-> 0, timer |-> "armed",
                       error |-> ""]]
    /\ UNCHANGED <<pgVars, mdVars, srVars, regVars, seVars>>

\* time passes for every download in flight; a timer that is due fires first
TimePasses ==
    /\ \E t \in Slots : Pending(fetches[t])
    /\ \A t \in Slots :
          Pending(fetches[t])
              => ~TimerDue(fetches[t]) /\ fetches[t].elapsed + TickMs <= MaxElapsed
    /\ fetches' = [t \in Slots |->
                      IF Pending(fetches[t])
                      THEN [fetches[t] EXCEPT !.elapsed = @ + TickMs]
                      ELSE fetches[t]]
    /\ UNCHANGED <<pgVars, mdVars, srVars, regVars, seVars>>

\* the timer fires: controller.abort() rejects the pending fetch with an
\* AbortError, the catch of fetchWithTimeout throws "Fetch timeout after ..."
\* and loadPDF rethrows it
TimeoutFires(t) ==
    /\ TimerDue(fetches[t])
    /\ fetches[t].pc = "fetch"
    /\ fetches' = [fetches EXCEPT ![t] =
                      [fetches[t] EXCEPT !.pc = "failed", !.error = "timeout",
                                         !.timer = "fired"]]
    /\ UNCHANGED <<pgVars, mdVars, srVars, regVars, seVars>>

\* fetch resolves with the response (its headers): clearTimeout, return;
\* loadPDF throws when the response is not ok, else awaits arrayBuffer()
ResponseArrives(t, ok) ==
    /\ fetches[t].pc = "fetch"
    /\ fetches' = [fetches EXCEPT ![t] =
                      [fetches[t] EXCEPT
                         !.timer = "cleared",
                         !.pc    = IF ok THEN "arrayBuffer" ELSE "failed",
                         !.error = IF ok THEN "" ELSE "status"]]
    /\ UNCHANGED <<pgVars, mdVars, srVars, regVars, seVars>>

\* response.arrayBuffer() resolves: the bytes are there
BodyArrives(t) ==
    /\ fetches[t].pc = "arrayBuffer"
    /\ fetches' = [fetches EXCEPT ![t].pc = "downloaded"]
    /\ UNCHANGED <<pgVars, mdVars, srVars, regVars, seVars>>

\* fetch or arrayBuffer() rejects with a network error: clearTimeout in the
\* catch of fetchWithTimeout, loadPDF rethrows
FetchRejects(t) ==
    /\ Pending(fetches[t])
    /\ fetches' = [fetches EXCEPT ![t] =
                      [fetches[t] EXCEPT
                         !.pc = "failed", !.error = "network",
                         !.timer = IF @ = "armed" THEN "cleared" ELSE @]]
    /\ UNCHANGED <<pgVars, mdVars, srVars, regVars, seVars>>

\* the call is over (loadPDF went on to decode the bytes, or threw)
DownloadOver(t) ==
    /\ fetches[t].pc \in {"downloaded", "failed"}
    /\ fetches' = [fetches EXCEPT ![t] = IdleFetch]
    /\ UNCHANGED <<pgVars, mdVars, srVars, regVars, seVars>>

FetchNext ==
    \/ \E t \in Slots : CallFetchWithTimeout(t)
    \/ TimePasses
    \/ \E t \in Slots : TimeoutFires(t)
    \/ \E t \in Slots, ok \in BOOLEAN : ResponseArrives(t, ok)
    \/ \E t \in Slots : BodyArrives(t)
    \/ \E t \in Slots : FetchRejects(t)
    \/ \E t \in Slots : DownloadOver(t)

\* C15: a regex search whose pattern can match the empty string ends with a
\* finite number of matches: the positions of the matches increase strictly,
\* so no position yields two matches, and after a zero-width match at
\* position i the next match is the one the pattern has from position i + 1
\* on (none when the scan ended there without being stopped by the limit).
C15_ZeroWidthAdvances ==
    (srDone /\ srRegex /\ ValidRegExp(srQuery)) =>
        LET atoms == ParseAtoms(srQuery, 1)
            ms    == srResult.matches
            next(k) == Exec(atoms, srBody, ms[k].position + 1, ~srCase).index
        IN /\ srResult.status = "ok"
           /\ Len(ms) <= Len(srBody) + 1
           /\ \A k \in 1..Len(ms) - 1 : ms[k].position < ms[k + 1].position
           /\ \A k \in 1..Len(ms) :
                Len(ms[k].text) = 0 =>
                    IF k < Len(ms) THEN ms[k + 1].position = next(k)
                    ELSE next(k) = -1 \/ LimitReached(srMax, Len(ms))

\* a regex search that went on after a zero-width match inside the body
C15_Witness ==
    /\ srDone
    /\ srRegex
    /\ srResult.status = "ok"
    /\ \E k \in 1..Len(srResult.matches) - 1 :
          /\ Len(srResult.matches[k].text) = 0
          /\ srResult.matches[k + 1].position = srResult.matches[k].position + 1

(***************************************************************************)
(* Claims about extractSection (specification SpecSection).                *)
(***************************************************************************)
\* the lines (counted from 1) of the body that are heading lines
HeadingLinesOf(body) ==
    LET lines == Split(body, <<NL>>)
    IN {i \in 1..Len(lines) : IsHeadingLine(lines[i])}

\* one text contains the other
EitherContains(a, b) == Includes(a, b) \/ Includes(b, a)

SetMin(S) == CHOOSE x \in S : \A y \in S : x <= y

\* the heading lines whose lower-cased title, as written, passes the test
\* against the lower-cased trimmed query
MatchingAsWritten ==
    LET lines == Split(seBody, <<NL>>)
    IN {i \in HeadingLinesOf(seBody) :
          EitherContains(ToLowerCase(HeadingTitle(lines[i])),
                         Trim(ToLowerCase(seTitle)))}

\* the same with the title trimmed as well
MatchingTrimmed ==
    LET lines == Split(seBody, <<NL>>)
    IN {i \in HeadingLinesOf(seBody) :
          EitherContains(Trim(ToLowerCase(HeadingTitle(lines[i]))),
                         Trim(ToLowerCase(seTitle)))}

\* the call selected line i of the body and, when it returned, named the
\* section by the title of that line as written
SelectedLine(i) ==
    /\ seResult.status \in {"ok", "out_of_range"}
    /\ seResult.sectionStart = i - 1
    /\ seResult.status = "ok"
         => seResult.section = HeadingTitle(Split(seBody, <<NL>>)[i])

\* C11: the call selects the first heading line, in document order, whose
\* lower-cased title contains the lower-cased trimmed query or is contained
\* in it, and names the section by that title as written; no heading
\* matches when the call finds no section.
C11_FirstMatchingHeadingAsWritten ==
    seDone =>
        IF MatchingAsWritten = {} THEN seResult.status = "not_found"
        ELSE SelectedLine(SetMin(MatchingAsWritten))

\* C11 amended: the same, the test being made on the title lower-cased and
\* trimmed of the whitespace around it.
C11_FirstMatchingHeading ==
    seDone =>
        IF MatchingTrimmed = {} THEN seResult.status = "not_found"
        ELSE SelectedLine(SetMin(MatchingTrimmed))

\* a call that passed over a heading that does not match and returned a
\* section whose title differs from the query in case
C11_Witness ==
    /\ seDone
    /\ seResult.status = "ok"
    /\ seResult.sectionStart > 0
    /\ \E i \in HeadingLinesOf(seBody) : i - 1 < seResult.sectionStart
    /\ ToLowerCase(seResult.section) # seResult.section

\* the lines of the body after line start that are heading lines of a depth
\* equal to or shallower than the depth of line start
ClosingHeadings(body, start) ==
    LET lines == Split(body, <<NL>>)
    IN {j \in HeadingLinesOf(body) :
          j > start /\ HeadingLevel(lines[j]) <= HeadingLevel(lines[start])}

\* the lines from line start to the line before the next closing heading,
\* or to the last line of the body
BoundedText(body, start) ==
    LET lines == Split(body, <<NL>>)
        last  == IF ClosingHeadings(body, start) = {} THEN Len(lines)
                 ELSE SetMin(ClosingHeadings(body, start)) - 1
    IN Join(SubSeq(lines, start, last), <<NL>>)

\* C12: the text of the section runs from the matched heading line to the
\* line before the next heading line of equal or shallower depth, or to the
\* end of the body when there is none, deeper headings and their content
\* included (whitespace at the two ends of the text left aside).
C12_SectionBounds ==
    (seDone /\ seResult.status \in {"ok", "out_of_range"}) =>
        Trim(seResult.fullContent)
            = Trim(BoundedText(seBody, seResult.sectionStart + 1))

\* a section that holds a deeper heading and is closed by a later heading
C12_Witness ==
    /\ seDone
    /\ seResult.status = "ok"
    /\ ClosingHeadings(seBody, seResult.sectionStart + 1) # {}
    /\ \E j \in HeadingLinesOf(seBody) :
          /\ j > seResult.sectionStart + 1
          /\ j < SetMin(ClosingHeadings(seBody, seResult.sectionStart + 1))

\* C13: with total the number of pages the paginator makes of the matched
\* section, the call fails with the out-of-range error when page < 1 or
\* page > total, and for every page in 1..total it returns that page number,
\* total as totalPages and the page-th page as content.
C13_PageRange ==
    (seDone /\ seResult.status # "not_found") =>
        LET pages == paginateContent(seResult.fullContent, seBudget)
            total == Len(pages)
        IN IF sePage < 1 \/ sePage > total
           THEN seResult.status = "out_of_range"
           ELSE /\ seResult.status = "ok"
                /\ seResult.page = sePage
                /\ seResult.totalPages = total
                /\ seResult.content = pages[sePage]

\* the second page of a section of two pages or more was returned
C13_Witness ==
    /\ seDone
    /\ seResult.status = "ok"
    /\ seResult.page = 2
    /\ seResult.totalPages >= 2
    /\ seResult.content # <<>>

\* the k-th heading line of the body
KthHeadingLine(body, k) ==
    CHOOSE i \in HeadingLinesOf(body) :
        Cardinality({j \in HeadingLinesOf(body) : j <= i}) = k

\* C14: when no heading matches, the call fails with the not-found error,
\* returns no content, and the error carries the titles of the first 5
\* heading lines of the body in document order (all of them when there are
\* fewer), whatever the query is.
C14_NotFoundSuggestions ==
    (seDone /\ MatchingTrimmed = {}) =>
        LET lines == Split(seBody, <<NL>>)
            count == Cardinality(HeadingLinesOf(seBody))
            n     == IF count < 5 THEN count ELSE 5
        IN /\ seResult.status = "not_found"
           /\ seResult.content = <<>>
           /\ Len(seResult.suggestions) = n
           /\ \A k \in 1..n :
                seResult.suggestions[k]
                    = HeadingTitle(lines[KthHeadingLine(seBody, k)])

\* a failed lookup in a body of more than 5 headings
C14_Witness ==
    /\ seDone
    /\ seResult.status = "not_found"
    /\ Cardinality(HeadingLinesOf(seBody)) > 5
    /\ Len(seResult.suggestions) = 5

\* C1: after any sequence of load and unload calls, no two entries of the
\* registry hold the same normalized locator.
C1_NoDuplicateLocator ==
    \A j, k \in 1..Len(loadedPDFs) :
        NormalizePath(loadedPDFs[j].path) = NormalizePath(loadedPDFs[k].path)
            => j = k

\* C2: a load never replaces the entry of a different locator: the entry
\* that is under an id after a step has the locator of the entry that was
\* under that id before the step.
C2_LoadKeepsOtherLocators ==
    [][\A j \in 1..Len(loadedPDFs) : \A k \in 1..Len(loadedPDFs') :
          loadedPDFs'[k].id = loadedPDFs[j].id
              => NormalizePath(loadedPDFs'[k].path)
                   = NormalizePath(loadedPDFs[j].path)]_vars

\* C3: a load of a locator directly after a load of the same locator
\* returns the id the first load returned, and the registry has as many
\* entries after the second load as after the first.
C3_RepeatedLoadSameId ==
    (lastEv.op = "load" /\ lastEv.repeat)
        => lastEv.id = lastEv.firstId /\ lastEv.size = lastEv.firstSize

\* a second load of b/report.pdf, registered under the two-segment id next
\* to a/report.pdf
C3_Witness ==
    /\ lastEv.op = "load"
    /\ lastEv.repeat
    /\ lastEv.id = "b/report.pdf"
    /\ lastEv.size = 2

\* the numbers i for which the id made of the last i segments of filePath is
\* unassigned in map or assigned to the same normalized locator
FreeSuffixes(map, filePath) ==
    LET parts == PathParts(filePath)
    IN {i \in 1..Len(parts) :
          LET candidateId == JoinStr(LastParts(parts, i), Separator)
          IN \/ ~MapHas(map, candidateId)
             \/ NormalizePath(MapGet(map, candidateId).path)
                  = NormalizePath(filePath)}

\* C16: a load of a filesystem locator registers it under the join of its
\* last i segments, for the smallest i whose candidate is unassigned or is
\* already the id of this same normalized locator.
C16_SmallestFreeSuffix ==
    [][\A t \in Slots :
          (/\ tasks[t].pc = "readFile"
           /\ tasks'[t].pc \in {"mkdir", "writeFile"}
           /\ FreeSuffixes(loadedPDFs, tasks[t].filePath) # {})
          => LET parts == PathParts(tasks[t].filePath)
                 i     == SetMin(FreeSuffixes(loadedPDFs, tasks[t].filePath))
             IN /\ tasks'[t].id = JoinStr(LastParts(parts, i), Separator)
                /\ MapHas(loadedPDFs', tasks'[t].id)
                /\ MapGet(loadedPDFs', tasks'[t].id).path = tasks[t].filePath]_vars

\* /a/report.pdf and then /b/report.pdf loaded into the empty registry:
\* the ids are "report.pdf" and "b/report.pdf"
C16_Witness ==
    /\ calls = 2
    /\ Len(loadedPDFs) = 2
    /\ loadedPDFs[1].path = FileLoc(TRUE, <<"a", "report.pdf">>)
    /\ loadedPDFs[1].id = "report.pdf"
    /\ loadedPDFs[2].path = FileLoc(TRUE, <<"b", "report.pdf">>)
    /\ loadedPDFs[2].id = "b/report.pdf"
    /\ lastEv.op = "load"
    /\ lastEv.id = "b/report.pdf"

\* C18: restoreCache replays the entries of the cache file through loadPDF
\* in file order, a failed load does not stop it, and when it returns every
\* entry whose load succeeded is in the registry.
C18_ReplayedEntriesRegistered ==
    [][(restore.pc = "loadPDF" /\ restore'.pc = "done")
          => \A filePath \in restore.loaded :
                \E k \in 1..Len(loadedPDFs') : loadedPDFs'[k].path = filePath]_vars

\* C19: when a load or an unload that had no other call in flight beside it
\* ends with its writeFile done, the cache file lists exactly the {id, path}
\* pairs of the registry, one per registered document and nothing more.
C19_CacheFileMatchesRegistry ==
    [][\A t \in Slots :
          (/\ tasks[t].pc = "writeFile"
           /\ tasks[t].alone
           /\ tasks'[t].pc = "idle"
           /\ cacheFile'.exists
           /\ cacheFile'.data = tasks[t].cacheData)
          => /\ Len(cacheFile'.data) = Len(loadedPDFs')
             /\ \A k \in 1..Len(loadedPDFs') :
                   cacheFile'.data[k]
                       = [id |-> loadedPDFs'[k].id, path |-> loadedPDFs'[k].path]]_vars

\* the only call made so far, a load, has returned with the file written
C19_Witness ==
    /\ calls = 1
    /\ restore.pc = "off"
    /\ \A t \in Slots : tasks[t].pc = "idle"
    /\ Len(loadedPDFs) = 1
    /\ cacheFile.exists
    /\ Len(cacheFile.data) = 1

\* C20: unloadPDF(id) returns true exactly when id is registered at the
\* call; after it id is absent and every other entry is as it was; for an id
\* that is not registered nothing changes, the cache file included, and no
\* save is started.
C20_UnloadRemovesOnlyId ==
    [][(/\ calls' = calls + 1
        /\ \A t \in Slots : tasks'[t].pc \notin {"readFile", "fetch"}
                               \/ tasks[t].pc = tasks'[t].pc)
          => LET id == lastEv'.id
             IN /\ lastEv'.op = "unload"
                /\ lastEv'.removed = MapHas(loadedPDFs, id)
                /\ ~MapHas(loadedPDFs', id)
                /\ loadedPDFs' = SelectSeq(loadedPDFs, LAMBDA v : v.id # id)
                /\ ~MapHas(loadedPDFs, id)
                     => /\ loadedPDFs' = loadedPDFs
                        /\ cacheFile' = cacheFile
                        /\ tasks' = tasks]_vars

\* an unload that removed one entry of several
C20_Witness ==
    /\ lastEv.op = "unload"
    /\ lastEv.removed
    /\ Len(loadedPDFs) >= 1
    /\ ~MapHas(loadedPDFs, lastEv.id)

\* C21: a reading call (section, search, info, outline) with an id that is
\* not a key of the registry throws the not-found error and gets no document;
\* the registry, the cache file and the calls in flight are as before, the
\* dispatcher answers with the error text, and the server is still serving.
C21_UnknownIdNotFound ==
    [][(observed'.id # "" /\ ~MapHas(loadedPDFs, observed'.id))
          => /\ observed'.error = NotFoundError
             /\ observed'.docs = <<>>
             /\ ToolResponse(observed').content = <<"Error: ", NotFoundError>>
             /\ loadedPDFs' = loadedPDFs
             /\ cacheFile' = cacheFile
             /\ tasks' = tasks
             /\ Serving']_vars

\* a read of an id that was unloaded, while another document is registered
C21_Witness ==
    /\ observed.id # ""
    /\ observed.error = NotFoundError
    /\ lastEv.op = "unload"
    /\ lastEv.removed
    /\ lastEv.id = observed.id
    /\ Len(loadedPDFs) >= 1

\* C26: no step of a load that fails writes the registry or the cache file:
\* not the call, not the wait for the bytes, not the step that throws; when
\* it throws, a document registered for the same locator is still there.
C26_FailedLoadChangesNothing ==
    [][\A t \in Slots :
          (/\ tasks[t].pc \in {"idle", "fetch", "arrayBuffer", "readFile"}
           /\ tasks'[t].pc \in {"idle", "fetch", "arrayBuffer", "readFile"}
           /\ tasks'[t].pc # tasks[t].pc)
          => /\ loadedPDFs' = loadedPDFs
             /\ cacheFile' = cacheFile
             /\ observed'.error = LoadError
                  => \A k \in 1..Len(loadedPDFs) :
                        loadedPDFs[k].path = observed'.filePath
                          => /\ MapHas(loadedPDFs', loadedPDFs[k].id)
                             /\ MapGet(loadedPDFs', loadedPDFs[k].id) = loadedPDFs[k]]_vars

\* a load of a locator that is registered has just thrown, with the cache
\* file written earlier
C26_Witness ==
    /\ observed.error = LoadError
    /\ \E k \in 1..Len(loadedPDFs) : loadedPDFs[k].path = observed.filePath
    /\ cacheFile.exists
    /\ Len(cacheFile.data) >= 1

\* C27: when restoreCache returns after a replay in which every load
\* succeeded, every pair {id, path} of the file it read is in the registry:
\* the locator is registered under the id it had when the file was written.
C27_ReplayKeepsIds ==
    [][(/\ restore.pc = "loadPDF"
        /\ restore'.pc = "done"
        /\ \A i \in 1..Len(restore.read) : restore.read[i].path \in restore.loaded)
          => \A i \in 1..Len(restore.read) :
                \E k \in 1..Len(loadedPDFs') :
                    /\ loadedPDFs'[k].id = restore.read[i].id
                    /\ loadedPDFs'[k].path = restore.read[i].path]_vars

\* C29: when the last of several overlapping calls finishes with its
\* writeFile done, the cache file lists the pairs of the registry: a write
\* never replaces a file that lists the registry as it is, written from a
\* later snapshot, by the pairs of an earlier snapshot.
C29_StaleSaveNeverLands ==
    [][\A t \in Slots :
          (/\ tasks[t].pc = "writeFile"
           /\ cacheFile.exists
           /\ cacheFile.data = CacheData(loadedPDFs)
           /\ cacheFile'.data = tasks[t].cacheData
           /\ \A u \in Slots : tasks'[u].pc = "idle")
          => cacheFile'.data = CacheData(loadedPDFs')]_vars

\* C30: of two overlapping loads of distinct filesystem locators with the
\* same last segment, called on an empty registry, the one called first gets
\* the bare last segment as id and the one called second the longer id,
\* whichever of them is registered first.
C30_IdsFollowCallOrder ==
    (/\ restore.pc = "off"
     /\ calls = 2
     /\ tasks[1].id # "" /\ tasks[2].id # ""
     /\ tasks[1].filePath \in Locators /\ tasks[2].filePath \in Locators
     /\ ~IsUrl(tasks[1].filePath) /\ ~IsUrl(tasks[2].filePath)
     /\ tasks[1].filePath # tasks[2].filePath
     /\ LastParts(PathParts(tasks[1].filePath), 1)
          = LastParts(PathParts(tasks[2].filePath), 1))
    => /\ tasks[1].id = JoinStr(LastParts(PathParts(tasks[1].filePath), 1), Separator)
       /\ tasks[2].id = JoinStr(LastParts(PathParts(tasks[2].filePath), 2), Separator)

\* the record a finished load of filePath stores under id
CompleteRecord(id, filePath) ==
    LET decoded == DecodeOutcome(filePath) IN
    [id        |-> id,
     path      |-> filePath,
     pageCount |-> Len(SourcePages),
     markdown  |-> convertToMarkdown(DecodedPages(decoded),
                                     Decoded(IdleTask, decoded).outline),
     metadata  |-> Decoded(IdleTask, decoded).metadata,
     outline   |-> Decoded(IdleTask, decoded).outline]

\* C9: whatever loads and unloads are in flight, a reading call gets, for
\* the id it asked for, one complete record stored by one load, or nothing;
\* a listing gets complete records only.
C9_ReadSeesCompleteRecord ==
    /\ \A k \in 1..Len(observed.docs) :
          /\ observed.docs[k].path \in Locators
          /\ observed.docs[k]
               = CompleteRecord(observed.docs[k].id, observed.docs[k].path)
    /\ observed.id # ""
          => IF observed.found
             THEN Len(observed.docs) = 1 /\ observed.docs[1].id = observed.id
             ELSE observed.docs = <<>>

\* a read that got the record of a locator while another load of the same
\* locator was awaiting its bytes
C9_Witness ==
    /\ observed.found
    /\ Len(observed.docs) = 1
    /\ \E t \in Slots :
          /\ tasks[t].pc \in {"readFile", "fetch", "arrayBuffer"}
          /\ tasks[t].filePath = observed.docs[1].path

\* C10: a load of a URL is never pending on the remote for longer than the
\* fetch timeout, whether the remote stalls before the response headers or
\* while it sends the body: at the timeout the request is aborted and the
\* load fails.
C10_PendingWithinTimeout ==
    \A t \in Slots :
        Pending(fetches[t]) => fetches[t].elapsed <= FetchTimeout

(***************************************************************************)
(* Specifications.                                                         *)
(***************************************************************************)
MdIdle ==
    /\ mdPages = <<>>
    /\ mdOutline = <<>>
    /\ mdSections = <<>>
    /\ mdBody = <<>>
    /\ mdDone = FALSE

InitPaginate == PgStart /\ MdIdle /\ SrIdle /\ RegInit /\ FtIdle /\ SeIdle
NextPaginate == Paginate
SpecPaginate == InitPaginate /\ [][NextPaginate]_vars

InitMarkdown == MdInit /\ PgIdle /\ SrIdle /\ RegInit /\ FtIdle /\ SeIdle
NextMarkdown == ConvertToMarkdown
SpecMarkdown == InitMarkdown /\ [][NextMarkdown]_vars

InitSearch == SrInit /\ PgIdle /\ MdIdle /\ RegInit /\ FtIdle /\ SeIdle
NextSearch == Search
SpecSearch == InitSearch /\ [][NextSearch]_vars

Init == RegInit /\ PgIdle /\ MdIdle /\ SrIdle /\ FtIdle /\ SeIdle
Next == RegNext
Spec == Init /\ [][Next]_vars

InitFetch == FtIdle /\ RegInit /\ PgIdle /\ MdIdle /\ SrIdle /\ SeIdle
NextFetch == FetchNext
SpecFetch == InitFetch /\ [][NextFetch]_vars

InitSection == SeInit /\ PgIdle /\ MdIdle /\ SrIdle /\ RegInit /\ FtIdle
NextSection == ExtractSection
SpecSection == InitSection /\ [][NextSection]_vars

====
